---- MODULE Spec2Model ----
(***************************************************************************)
(* A model of the three binary-catalog parsers of blizzard-casc            *)
(* (src/blizzard-casc.js): parseIndexFile, parseEncodingFile and           *)
(* parseRootFile, each run step by step over a byte buffer through a       *)
(* Bufo-style cursor; and of the configuration accessors of a CASC         *)
(* instance (targetProduct, patchServer, cdnServer, cdnPath and their      *)
(* setters).  Spec runs the parsers, ConfigSpec the accessors: neither     *)
(* touches the other's state.  SeqSpec runs the parsers on well-formed     *)
(* buffers and keeps a history across calls.                               *)
(*                                                                         *)
(* A buffer is a sequence of bytes (0..255); buffer position p (0-based)   *)
(* is element p + 1 of the sequence.                                       *)
(***************************************************************************)
EXTENDS Integers, Sequences, FiniteSets, TLC

VARIABLES
    pc,             \* position of the running call: "idle", a loop head, "returned" or "threw"
    arg,            \* the fields the caller's buffer was encoded from (what the bytes mean)
    buf,            \* the bytes handed to the parser (the reader's buffer)
    offset,         \* the reader's cursor (Bufo offset)
    count,          \* `count` (index, root block) / `numEntriesA` (encoding)
    i,              \* loop counter `j` (index) / `i` (encoding chunks, root positions)
    entries,        \* the function-level `entries` array (parseRootFile: line 263)
    types,          \* parseRootFile `types` array, as a function from the assigned indices
    rootIndex,      \* parseRootFile `rootIndex` object: FileDataID -> hash
    typeIndex,      \* parseRootFile `typeIndex`
    blockEntries,   \* parseRootFile block-level `entries` array (line 287), which shadows line 263
    fileDataIndex,  \* parseRootFile `fileDataIndex`
    chunkStart,     \* parseEncodingFile `chunkStart`
    keysCount,      \* parseEncodingFile `keysCount`
    accepted,       \* history: every entry parseRootFile pushed so far in this call (line 310)
    result,         \* what the call returned or threw
    discarded,      \* history (SeqSpec): what the last finished parseRootFile call had in
                    \* `rootIndex` for the watched FileDataIDs when its locals were dropped
    productTag,     \* this._productTag
    patchServer,    \* this._patchServer
    cdnServer,      \* this._cdnServer
    cdnPath,        \* this._cdnPath
    lastSet,        \* history: the arguments of the latest call of each setter
    got             \* the outcome of the latest read of a getter

\* the locals of a parse call, and the history kept about them
parseVars == <<pc, arg, buf, offset, count, i, entries, types, rootIndex, typeIndex,
               blockEntries, fileDataIndex, chunkStart, keysCount, accepted, result,
               discarded>>

\* the fields of the CASC instance, and the history kept about them
configVars == <<productTag, patchServer, cdnServer, cdnPath, lastSet, got>>

vars == <<parseVars, configVars>>

----------------------------------------------------------------------------
(* Bounds of the model: how large the enumerated buffers get.              *)

MaxIndexEntries == 2
MaxChunks == 2
MaxBlocks == 2

----------------------------------------------------------------------------
(* Program constants.                                                      *)

EntrySize == 24
TrailerSize == 12
KeyLen == 16
RootHashLen == 8
PageSize == 4096
IndexSkip == 32

----------------------------------------------------------------------------
(* The byte cursor (Bufo) and the hex formatter (bytey).                   *)

Bytes(b, off, n) == [k \in 1..n |-> b[off + k]]

CanRead(b, off, n) == off >= 0 /\ off + n <= Len(b)

RECURSIVE UIntBE(_)
UIntBE(bs) == IF bs = <<>> THEN 0 ELSE bs[Len(bs)] + 256 * UIntBE(SubSeq(bs, 1, Len(bs) - 1))

Reverse(bs) == [k \in 1..Len(bs) |-> bs[Len(bs) + 1 - k]]

\* two's complement: the leading (most significant) byte carries the sign
IntBE(bs) ==
    (IF bs[1] >= 128 THEN bs[1] - 256 ELSE bs[1]) * 256^(Len(bs) - 1)
        + UIntBE(SubSeq(bs, 2, Len(bs)))

\* Bufo reads; the default endianness is little, ENDIAN_BIG is passed where the
\* format is big-endian.  Numbers here are 32-bit, so an unsigned read is only
\* taken of values below 2^31; bit masks are read as the set of their set bits.
ReadInt32LE(b, off) == IntBE(Reverse(Bytes(b, off, 4)))
ReadInt32BE(b, off) == IntBE(Bytes(b, off, 4))
ReadUInt32BE(b, off) == UIntBE(Bytes(b, off, 4))
ReadUInt16LE(b, off) == UIntBE(Reverse(Bytes(b, off, 2)))

\* the set bits of a little-endian unsigned 32-bit value (bit 0 = least significant)
ReadBits32LE(b, off) ==
    { n \in 0..31 : (b[off + (n \div 8) + 1] \div 2^(n % 8)) % 2 = 1 }

\* seek(n): a negative position counts from the end of the buffer.
SeekPos(b, n) == IF n < 0 THEN Len(b) + n ELSE n

HexDigits == <<"0", "1", "2", "3", "4", "5", "6", "7",
               "8", "9", "a", "b", "c", "d", "e", "f">>

ByteToHex(x) == HexDigits[(x \div 16) + 1] \o HexDigits[(x % 16) + 1]

RECURSIVE byteArrayToHexString(_)
byteArrayToHexString(bs) ==
    IF bs = <<>> THEN "" ELSE ByteToHex(Head(bs)) \o byteArrayToHexString(Tail(bs))

----------------------------------------------------------------------------
(* Encoders: how a caller lays fields out as bytes.  They build the input  *)
(* buffers; the parsers below never use them.                              *)

RECURSIVE PutLE(_, _)
PutLE(v, n) == IF n = 0 THEN <<>> ELSE <<v % 256>> \o PutLE(v \div 256, n - 1)
\* (v % 256 and v \div 256 round down, so a negative v comes out in two's complement)

RECURSIVE PutBE(_, _)
PutBE(v, n) == IF n = 0 THEN <<>> ELSE PutBE(v \div 256, n - 1) \o <<v % 256>>

Fill(x, n) == [k \in 1..n |-> x]

RECURSIVE Flatten(_)
Flatten(ss) == IF ss = <<>> THEN <<>> ELSE Head(ss) \o Flatten(Tail(ss))

SeqsUpTo(S, n) == UNION {[1..m -> S] : m \in 0..n}

\* 16-byte keys: all 0xAA, and 01 02 .. 10
KeyAA == Fill(170, 16)
KeyCounting == [k \in 1..16 |-> k]
KeyFF == Fill(255, 16)

\* ---- archive index ----
\* an entry is [key, size, offset]: 16 key bytes, and the 4 big-endian bytes of
\* its uint32 size and of its uint32 offset (0x100 / 0x200, 0x80000000 / 1,
\* 7 / 0xFFFFFFFF)
IndexEntryShapes ==
    { [key |-> KeyAA, size |-> <<0, 0, 1, 0>>, offset |-> <<0, 0, 2, 0>>],
      [key |-> KeyCounting, size |-> <<128, 0, 0, 0>>, offset |-> <<0, 0, 0, 1>>],
      [key |-> KeyFF, size |-> <<0, 0, 0, 7>>, offset |-> <<255, 255, 255, 255>>] }

EncodeIndexEntry(e) == e.key \o e.size \o e.offset

\* the 12-byte trailer: the count in its first 4 bytes (countAt = "first", the
\* value 12 bytes before the end) or in its last 4 bytes (countAt = "last")
EncodeTrailer(c, countAt) ==
    IF countAt = "first" THEN PutLE(c, 4) \o Fill(0, 8)
    ELSE Fill(0, 8) \o PutLE(c, 4)

EncodeIndex(a) ==
    Flatten([k \in 1..Len(a.entries) |-> EncodeIndexEntry(a.entries[k])])
        \o EncodeTrailer(a.count, a.countAt)

IndexInputs ==
    { [kind |-> "index", entries |-> es, count |-> c, countAt |-> at] :
        es \in SeqsUpTo(IndexEntryShapes, MaxIndexEntries),
        c \in {-1, 0, 1, 2, 3, 4},
        at \in {"first", "last"} }

\* ---- encoding table ----
HashC1 == [k \in 1..16 |-> 192 + k]
HashC2 == Fill(16, 16)

\* a record is [keyCount, size, hash, keys]
Rec1 == [keyCount |-> 1, size |-> 4660, hash |-> HashC1, keys |-> <<KeyAA>>]
Rec2 == [keyCount |-> 2, size |-> 305419896, hash |-> HashC2, keys |-> <<KeyAA, KeyFF>>]
Rec3 == [keyCount |-> 3, size |-> 1, hash |-> HashC1, keys |-> <<KeyFF, KeyAA, KeyCounting>>]

\* a record of n keys
RecN(n) == [keyCount |-> n, size |-> 2, hash |-> HashC2,
            keys |-> [k \in 1..n |-> IF k = 1 THEN KeyCounting ELSE KeyFF]]

\* records and terminator fill the page exactly: 5 * 22 + 249 * 16 + 2 = 4096
ChunkFull == <<RecN(49), RecN(50), RecN(50), RecN(50), RecN(50)>>

\* the records of one chunk
ChunkShapes == { <<>>, <<Rec1>>, <<Rec3, Rec2>>, <<Rec2, Rec1, Rec2>>, ChunkFull }

StringBlockSizes == {0, 5}

\* the keys of a record, one after the other
EncodeKeys(keys) ==
    [j \in 1..(KeyLen * Len(keys)) |-> keys[((j - 1) \div KeyLen) + 1][((j - 1) % KeyLen) + 1]]

EncodeRecord(r) ==
    PutLE(r.keyCount, 2) \o PutBE(r.size, 4) \o r.hash \o EncodeKeys(r.keys)

\* the records of a chunk and the zero key-count after them
EncodeRecords(c) == Flatten([k \in 1..Len(c) |-> EncodeRecord(c[k])]) \o <<0, 0>>

\* a chunk: its records, the zero key-count, zeros up to the end of the page
EncodeChunk(c) ==
    LET body == EncodeRecords(c)
    IN body \o Fill(0, (PageSize - (Len(body) % PageSize)) % PageSize)

ChunkBytes == [c \in ChunkShapes |-> EncodeChunk(c)]

\* header: 9 bytes, entry count, 5 bytes, string block size; string block;
\* 32 bytes of index per declared entry; the chunks
EncodeEncoding(a) ==
    Fill(69, 9) \o PutBE(a.numEntriesA, 4) \o Fill(1, 5) \o PutBE(a.stringBlockSize, 4)
        \o Fill(115, a.stringBlockSize)
        \o Fill(73, IndexSkip * a.numEntriesA)
        \o Flatten([k \in 1..Len(a.chunks) |-> ChunkBytes[a.chunks[k]]])

\* tables that declare as many chunks as they hold, and tables that declare
\* one chunk more
EncodingInputs ==
    { [kind |-> "encoding", stringBlockSize |-> sb, numEntriesA |-> Len(cs) + more,
       chunks |-> cs] :
        sb \in StringBlockSizes, cs \in SeqsUpTo(ChunkShapes, MaxChunks), more \in {0, 1} }

\* ---- root table ----
RootHashA == <<17, 0, 0, 0, 17, 0, 0, 0>>
RootHashB == <<34, 0, 0, 0, 0, 0, 0, 1>>

\* the bits of the flag values used below
LocaleNone == {}
LocaleEnUS == {1}
LocaleAll == 0..31
ContentNone == {}
ContentF1 == {0}
ContentF8 == {3}
ContentLowViolence == {7}
ContentNoCompression == {31}

RECURSIVE BitsValue(_, _)
BitsValue(S, n) ==
    IF n = 0 THEN 0 ELSE 2 * BitsValue({m - 1 : m \in S \ {0}}, n - 1) + (IF 0 \in S THEN 1 ELSE 0)

\* the 4 little-endian bytes of a 32-bit mask given by its set bits
PutBits32LE(S) == [j \in 1..4 |-> BitsValue({n - 8 * (j - 1) : n \in {m \in S : m \div 8 = j - 1}}, 8)]

\* a block is [count, contentFlag, localeFlag, deltas, pairs], pairs of [key, hash]
EncodeBlock(bl) ==
    PutLE(bl.count, 4) \o PutBits32LE(bl.contentFlag) \o PutBits32LE(bl.localeFlag)
        \o Flatten([k \in 1..Len(bl.deltas) |-> PutLE(bl.deltas[k], 4)])
        \o Flatten([k \in 1..Len(bl.pairs) |-> bl.pairs[k].key \o bl.pairs[k].hash])

\* the blocks, and `tail` bytes after the last one
EncodeRoot(a) ==
    Flatten([k \in 1..Len(a.blocks) |-> EncodeBlock(a.blocks[k])]) \o Fill(0, a.tail)

DeltaSeqs == { <<>>, <<100>>, <<100, -1>>, <<99, 0>>, <<5, 0, 2>> }
HashSeqs == { <<>>, <<RootHashA>>, <<RootHashB>>,
              <<RootHashA, RootHashA>>, <<RootHashA, RootHashB>>, <<RootHashB, RootHashA>>,
              <<RootHashA, RootHashA, RootHashA>>, <<RootHashA, RootHashB, RootHashA>> }

\* the ids and hashes of a block
BlockBodies ==
    { bd \in { [deltas |-> d, hashes |-> h] : d \in DeltaSeqs, h \in HashSeqs } :
        Len(bd.deltas) = Len(bd.hashes) }

\* the flags of a block
BlockFlags ==
    { [contentFlag |-> c, localeFlag |-> l] :
        c \in {ContentNone, ContentF1, ContentF8, ContentLowViolence, ContentNoCompression},
        l \in {LocaleNone, LocaleEnUS, LocaleAll} }

OneEntryBody == [deltas |-> <<100>>, hashes |-> <<RootHashA>>]

\* the key at position k of block n: n and k in every fourth byte
BlockKey(n, k) == [j \in 1..16 |-> IF j % 4 = 1 THEN 16 * n + k ELSE 0]

\* block number n of a buffer, from its body and flags; `more` is how many
\* entries its count declares beyond those it holds
MakeBlock(n, body, flags, more) ==
    [ count |-> Len(body.deltas) + more,
      contentFlag |-> flags.contentFlag,
      localeFlag |-> flags.localeFlag,
      deltas |-> body.deltas,
      pairs |-> [k \in 1..Len(body.deltas) |->
                    [key |-> BlockKey(n, k), hash |-> body.hashes[k]]] ]

\* the bytes of a fragment after the last block
TailSizes == {5, 11}

PlainFlags == [contentFlag |-> ContentNone, localeFlag |-> LocaleEnUS]

RootInputs ==
    \* any bodies, plain flags
    { [kind |-> "root", tail |-> 0,
       blocks |-> [n \in 1..Len(bs) |-> MakeBlock(n, bs[n], PlainFlags, 0)]] :
        bs \in SeqsUpTo(BlockBodies, MaxBlocks) }
    \cup
    \* any flags, one entry per block
    { [kind |-> "root", tail |-> 0,
       blocks |-> [n \in 1..Len(fs) |-> MakeBlock(n, OneEntryBody, fs[n], 0)]] :
        fs \in SeqsUpTo(BlockFlags, MaxBlocks) }
    \cup
    \* the last block declares more entries than the buffer holds, or a negative count
    { [kind |-> "root", tail |-> 0,
       blocks |-> [n \in 1..Len(bs) |->
                      MakeBlock(n, bs[n], PlainFlags, IF n = Len(bs) THEN more ELSE 0)]] :
        bs \in SeqsUpTo({OneEntryBody}, MaxBlocks) \ {<<>>}, more \in {-2, 1, 2} }
    \cup
    \* whole blocks, and a fragment shorter than a block header after them
    { [kind |-> "root", tail |-> t,
       blocks |-> [n \in 1..Len(bs) |-> MakeBlock(n, bs[n], PlainFlags, 0)]] :
        bs \in SeqsUpTo({OneEntryBody}, MaxBlocks), t \in TailSizes }

----------------------------------------------------------------------------
\* a read that does not fit in the buffer
UnderrunError == "read past the end of the buffer"

NoResult == [status |-> "none"]
Returned(v) == [status |-> "returned", value |-> v]
Threw(msg) == [status |-> "threw", error |-> msg]

\* JavaScript values of the instance fields: undefined, or a string given by
\* its characters
Undefined == [type |-> "undefined"]
Str(cs) == [type |-> "string", chars |-> cs]

\* the FileDataIDs whose discarded hash is remembered
WatchedIDs == {100}

Idle == pc = "idle"
Done == pc \in {"returned", "threw"}

Init ==
    /\ pc = "idle"
    /\ arg = [kind |-> "none"]
    /\ buf = <<>>
    /\ offset = 0
    /\ count = 0
    /\ i = 0
    /\ entries = <<>>
    /\ types = <<>>
    /\ rootIndex = <<>>
    /\ typeIndex = 0
    /\ blockEntries = <<>>
    /\ fileDataIndex = 0
    /\ chunkStart = 0
    /\ keysCount = 0
    /\ accepted = <<>>
    /\ result = NoResult
    /\ discarded = <<>>
    /\ productTag = Undefined
    /\ patchServer = Undefined
    /\ cdnServer = Undefined
    /\ cdnPath = Undefined
    /\ lastSet = [tag |-> Undefined, url |-> Undefined, host |-> Undefined, path |-> Undefined]
    /\ got = [getter |-> "none"]

\* mutant: the dedup map outlives the call
C14_Mut_ResetRoot ==
    /\ types' = <<>>
    /\ rootIndex' = rootIndex
    /\ typeIndex' = 0
    /\ blockEntries' = <<>>
    /\ fileDataIndex' = 0
    /\ accepted' = <<>>

\* the locals of the other parsers, as a fresh call leaves them
ResetRoot ==
    /\ types' = <<>>
    /\ rootIndex' = <<>>
    /\ typeIndex' = 0
    /\ blockEntries' = <<>>
    /\ fileDataIndex' = 0
    /\ accepted' = <<>>

ResetEnc ==
    /\ chunkStart' = 0
    /\ keysCount' = 0

----------------------------------------------------------------------------
(* parseIndexFile                                                          *)

\* mutant: the count taken from the last 4 bytes of the buffer
C5_Mut_TrailerCountPos(b) == SeekPos(b, -4)

\* lines 186-187: where the entry count is read
TrailerCountPos(b) == SeekPos(b, -TrailerSize)

\* mutant: the count compared with the length without the entry size
C4_Mut_IndexSizeError(c, b) == c > Len(b)

\* line 191: the size check
IndexSizeError(c, b) == c * EntrySize > Len(b)

\* lines 196-202: one entry at cursor `off`
IndexEntryAt(b, off) ==
    [ Hash |-> byteArrayToHexString(Bytes(b, off, KeyLen)),
      Size |-> ReadInt32BE(b, off + KeyLen),
      Offset |-> ReadInt32BE(b, off + KeyLen + 4) ]

\* lines 174-192: wrap the buffer, read the trailer count, rewind, check the size
ParseIndexFile(a) ==
    /\ Idle
    /\ UNCHANGED <<discarded, configVars>>
    /\ LET b == EncodeIndex(a)
           c == ReadInt32LE(b, TrailerCountPos(b))
       IN /\ arg' = a
          /\ buf' = b
          /\ offset' = 0
          /\ count' = c
          /\ i' = 0
          /\ entries' = <<>>
          /\ ResetRoot
          /\ ResetEnc
          /\ IF IndexSizeError(c, b)
             THEN /\ pc' = "threw"
                  /\ result' = Threw("Unable to parse archive, unexpected size.")
             ELSE /\ pc' = "index_loop"
                  /\ result' = NoResult

\* lines 195-203: one iteration of the entry loop
IndexReadEntry ==
    /\ pc = "index_loop"
    /\ UNCHANGED <<discarded, configVars>>
    /\ i < count
    /\ IF CanRead(buf, offset, EntrySize)
       THEN /\ entries' = Append(entries, IndexEntryAt(buf, offset))
            /\ offset' = offset + EntrySize
            /\ i' = i + 1
            /\ UNCHANGED <<pc, result>>
       ELSE /\ pc' = "threw"
            /\ result' = Threw(UnderrunError)
            /\ UNCHANGED <<entries, offset, i>>
    /\ UNCHANGED <<arg, buf, count, types, rootIndex, typeIndex, blockEntries,
                   fileDataIndex, chunkStart, keysCount, accepted>>

\* line 205
IndexReturn ==
    /\ pc = "index_loop"
    /\ UNCHANGED <<discarded, configVars>>
    /\ ~(i < count)
    /\ pc' = "returned"
    /\ result' = Returned(entries)
    /\ UNCHANGED <<arg, buf, offset, count, i, entries, types, rootIndex, typeIndex,
                   blockEntries, fileDataIndex, chunkStart, keysCount, accepted>>

----------------------------------------------------------------------------
(* parseEncodingFile                                                       *)

\* lines 220-228: where the header, the string block and the skipped index end
ChunkTableOrigin(b) ==
    LET numEntriesA == ReadInt32BE(b, 9)
        stringBlockSize == ReadInt32BE(b, 9 + 4 + 5)
    IN 9 + 4 + 5 + 4 + stringBlockSize + numEntriesA * IndexSkip

\* lines 234-245: the entry of the record whose key-count was read just before `off`
EncodingEntryAt(b, off) ==
    [ Hash |-> byteArrayToHexString(Bytes(b, off + 4, KeyLen)),
      Key |-> byteArrayToHexString(Bytes(b, off + 4 + KeyLen, KeyLen)),
      Size |-> ReadUInt32BE(b, off) ]

\* mutant: only the first key is stepped over
C6_Mut_RecordBytes(kc) == 4 + KeyLen + KeyLen

\* lines 234-243: the bytes of a record after its key-count
RecordBytes(kc) == 4 + KeyLen + KeyLen * kc

\* mutant: the bytes used in the page instead of the bytes left in it
C7_Mut_RemainingBytes(off, start) == (off - start) % PageSize

\* lines 249-251: how far the cursor moves after a chunk's terminator
RemainingBytes(off, start) == PageSize - ((off - start) % PageSize)

\* lines 213-228
ParseEncodingFile(a) ==
    /\ Idle
    /\ UNCHANGED <<discarded, configVars>>
    /\ LET b == EncodeEncoding(a)
       IN /\ arg' = a
          /\ buf' = b
          /\ i' = 0
          /\ entries' = <<>>
          /\ keysCount' = 0
          /\ ResetRoot
          /\ IF CanRead(b, 9, 4 + 5 + 4)
             THEN /\ count' = ReadInt32BE(b, 9)
                  /\ offset' = ChunkTableOrigin(b)
                  /\ chunkStart' = ChunkTableOrigin(b)
                  /\ pc' = "enc_chunk"
                  /\ result' = NoResult
             ELSE /\ count' = 0
                  /\ offset' = 0
                  /\ chunkStart' = 0
                  /\ pc' = "threw"
                  /\ result' = Threw(UnderrunError)

\* lines 230-231: enter a chunk and read its first key-count
EncChunkBegin ==
    /\ pc = "enc_chunk"
    /\ UNCHANGED <<discarded, configVars>>
    /\ i < count
    /\ IF CanRead(buf, offset, 2)
       THEN /\ keysCount' = ReadUInt16LE(buf, offset)
            /\ offset' = offset + 2
            /\ pc' = "enc_record"
            /\ result' = result
       ELSE /\ pc' = "threw"
            /\ result' = Threw(UnderrunError)
            /\ UNCHANGED <<keysCount, offset>>
    /\ UNCHANGED <<arg, buf, count, i, entries, types, rootIndex, typeIndex, blockEntries,
                   fileDataIndex, chunkStart, accepted>>

\* lines 233-247: one record, and the key-count after it
EncReadRecord ==
    /\ pc = "enc_record"
    /\ UNCHANGED <<discarded, configVars>>
    /\ keysCount # 0
    /\ IF CanRead(buf, offset, RecordBytes(keysCount) + 2)
       THEN /\ entries' = Append(entries, EncodingEntryAt(buf, offset))
            /\ keysCount' = ReadUInt16LE(buf, offset + RecordBytes(keysCount))
            /\ offset' = offset + RecordBytes(keysCount) + 2
            /\ UNCHANGED <<pc, result>>
       ELSE /\ pc' = "threw"
            /\ result' = Threw(UnderrunError)
            /\ UNCHANGED <<entries, keysCount, offset>>
    /\ UNCHANGED <<arg, buf, count, i, types, rootIndex, typeIndex, blockEntries,
                   fileDataIndex, chunkStart, accepted>>

\* lines 249-252: after the zero key-count, move to the page boundary; next chunk
EncAlign ==
    /\ pc = "enc_record"
    /\ UNCHANGED <<discarded, configVars>>
    /\ keysCount = 0
    /\ offset' = IF RemainingBytes(offset, chunkStart) > 0
                 THEN offset + RemainingBytes(offset, chunkStart)
                 ELSE offset
    /\ i' = i + 1
    /\ pc' = "enc_chunk"
    /\ UNCHANGED <<arg, buf, count, entries, types, rootIndex, typeIndex, blockEntries,
                   fileDataIndex, chunkStart, keysCount, accepted, result>>

\* line 254
EncReturn ==
    /\ pc = "enc_chunk"
    /\ UNCHANGED <<discarded, configVars>>
    /\ ~(i < count)
    /\ pc' = "returned"
    /\ result' = Returned(entries)
    /\ UNCHANGED <<arg, buf, offset, count, i, entries, types, rootIndex, typeIndex,
                   blockEntries, fileDataIndex, chunkStart, keysCount, accepted>>

----------------------------------------------------------------------------
(* parseRootFile                                                           *)

\* CASC.CONTENT_FLAG values of the mask of line 281, as sets of bits
F00000008 == {3}
F00000010 == {4}
F20000000 == {29}
NoCompression == {31}

\* mutant: a block without a locale is let through
C12_Mut_NoLocale(localeFlag) == FALSE

\* line 278
NoLocale(localeFlag) == localeFlag = {}

\* line 281, as written: `===` binds tighter than `&`, so contentFlag is
\* and-ed with the boolean (mask === 0), which converts to the number 0 or 1
InvalidContentFlag(contentFlag) ==
    LET mask == F00000008 \cup F00000010 \cup NoCompression \cup F20000000
        maskIsZero == IF mask = {} THEN {0} ELSE {}
    IN contentFlag # {} /\ (contentFlag \cap maskIsZero) # {}

\* mutant: the delta taken as the id itself
C9_Mut_NextID(index, delta) == delta

\* lines 290-297: the id at one position
NextID(index, delta) == index + delta

\* mutant: the running index not stepped past the id
C8_Mut_NextFileDataIndex(nextID) == nextID

\* line 297
NextFileDataIndex(nextID) == nextID + 1

\* mutant: nothing is ever dropped
C2_Mut_HashConflict(index, id, hash) == FALSE

\* lines 306-308: is the entry dropped?
HashConflict(index, id, hash) == id \in DOMAIN index /\ index[id] # hash

\* line 317
SetRootIndex(index, id, hash) == (id :> hash) @@ index

\* mutant: the block stored one index lower
C10_Mut_SetType(ts, k, localeFlag, contentFlag) ==
    ((k - 1) :> [LocaleFlag |-> localeFlag, ContentFlag |-> contentFlag]) @@ ts

\* line 285: types[typeIndex] = ...
SetType(ts, k, localeFlag, contentFlag) ==
    (k :> [LocaleFlag |-> localeFlag, ContentFlag |-> contentFlag]) @@ ts

\* mutant: the loop ends as soon as no whole block header is left
C13_Mut_MoreBlocks(off, b) == off + 12 <= Len(b)

\* line 272: the loop condition
MoreBlocks(off, b) == off < Len(b)

\* lines 262-271
ParseRootFile(a) ==
    /\ Idle
    /\ UNCHANGED <<discarded, configVars>>
    /\ arg' = a
    /\ buf' = EncodeRoot(a)
    /\ offset' = 0
    /\ count' = 0
    /\ i' = 0
    /\ entries' = <<>>
    /\ ResetRoot
    /\ ResetEnc
    /\ pc' = "root_loop"
    /\ result' = NoResult

\* lines 272-288: a block header; the reads before a throw have moved the cursor
RootBlockHeader ==
    /\ pc = "root_loop"
    /\ UNCHANGED <<discarded, configVars>>
    /\ MoreBlocks(offset, buf)
    /\ IF ~CanRead(buf, offset, 12)
       THEN /\ pc' = "threw"
            /\ result' = Threw(UnderrunError)
            /\ offset' = offset + 4 * ((Len(buf) - offset) \div 4)
            /\ UNCHANGED <<count, i, types, typeIndex, blockEntries, fileDataIndex>>
       ELSE LET contentFlag == ReadBits32LE(buf, offset + 4)
                localeFlag == ReadBits32LE(buf, offset + 8)
            IN IF NoLocale(localeFlag)
               THEN /\ pc' = "threw"
                    /\ result' = Threw("Root: No locale specified.")
                    /\ offset' = offset + 12
                    /\ UNCHANGED <<count, i, types, typeIndex, blockEntries, fileDataIndex>>
               ELSE IF InvalidContentFlag(contentFlag)
               THEN /\ pc' = "threw"
                    /\ result' = Threw("Root: Invalid content flag set (%d)")
                    /\ offset' = offset + 12
                    /\ UNCHANGED <<count, i, types, typeIndex, blockEntries, fileDataIndex>>
               ELSE /\ count' = ReadInt32LE(buf, offset)
                    /\ offset' = offset + 12
                    /\ typeIndex' = typeIndex + 1
                    /\ types' = SetType(types, typeIndex + 1, localeFlag, contentFlag)
                    /\ blockEntries' = <<>>
                    /\ fileDataIndex' = 0
                    /\ i' = 0
                    /\ pc' = "root_ids"
                    /\ UNCHANGED result
    /\ UNCHANGED <<arg, buf, entries, rootIndex, chunkStart, keysCount, accepted>>

\* lines 289-298: one position of the id loop
RootReadID ==
    /\ pc = "root_ids"
    /\ UNCHANGED <<discarded, configVars>>
    /\ i < count
    /\ IF CanRead(buf, offset, 4)
       THEN LET nextID == NextID(fileDataIndex, ReadInt32LE(buf, offset))
            IN /\ blockEntries' = Append(blockEntries,
                                         [RootType |-> typeIndex, FileDataID |-> nextID])
               /\ fileDataIndex' = NextFileDataIndex(nextID)
               /\ offset' = offset + 4
               /\ i' = i + 1
               /\ UNCHANGED <<pc, result>>
       ELSE /\ pc' = "threw"
            /\ result' = Threw(UnderrunError)
            /\ UNCHANGED <<blockEntries, fileDataIndex, offset, i>>
    /\ UNCHANGED <<arg, buf, count, entries, types, rootIndex, typeIndex, chunkStart,
                   keysCount, accepted>>

\* line 289 -> 300: the id loop ends, the key/hash loop begins
RootIDsDone ==
    /\ pc = "root_ids"
    /\ UNCHANGED <<discarded, configVars>>
    /\ ~(i < count)
    /\ pc' = "root_pairs"
    /\ i' = 0
    /\ UNCHANGED <<arg, buf, offset, count, entries, types, rootIndex, typeIndex,
                   blockEntries, fileDataIndex, chunkStart, keysCount, accepted, result>>

\* lines 300-318: one position of the key/hash loop
RootReadPair ==
    /\ pc = "root_pairs"
    /\ UNCHANGED <<discarded, configVars>>
    /\ i < count
    /\ IF CanRead(buf, offset, KeyLen + RootHashLen)
       THEN LET key == byteArrayToHexString(Bytes(buf, offset, KeyLen))
                hash == byteArrayToHexString(Bytes(buf, offset + KeyLen, RootHashLen))
                entry == blockEntries[i + 1]
                pushed == [Hash |-> hash, FileDataID |-> entry.FileDataID,
                           Key |-> key, Type |-> entry.RootType]
            IN /\ offset' = offset + KeyLen + RootHashLen
               /\ i' = i + 1
               /\ IF HashConflict(rootIndex, entry.FileDataID, hash)
                  THEN UNCHANGED <<blockEntries, rootIndex, accepted>>
                  ELSE /\ blockEntries' = Append(blockEntries, pushed)
                       /\ accepted' = Append(accepted, pushed)
                       /\ rootIndex' = SetRootIndex(rootIndex, entry.FileDataID, hash)
               /\ UNCHANGED <<pc, result>>
       ELSE /\ pc' = "threw"
            /\ result' = Threw(UnderrunError)
            /\ UNCHANGED <<offset, i, blockEntries, rootIndex, accepted>>
    /\ UNCHANGED <<arg, buf, count, entries, types, typeIndex, fileDataIndex, chunkStart,
                   keysCount>>

\* line 300 -> 272: the block is done
RootBlockDone ==
    /\ pc = "root_pairs"
    /\ UNCHANGED <<discarded, configVars>>
    /\ ~(i < count)
    /\ pc' = "root_loop"
    /\ UNCHANGED <<arg, buf, offset, count, i, entries, types, rootIndex, typeIndex,
                   blockEntries, fileDataIndex, chunkStart, keysCount, accepted, result>>

\* line 321: `entries` here is the array of line 263
RootReturn ==
    /\ pc = "root_loop"
    /\ UNCHANGED <<discarded, configVars>>
    /\ ~MoreBlocks(offset, buf)
    /\ pc' = "returned"
    /\ result' = Returned([Entries |-> entries, Types |-> types])
    /\ UNCHANGED <<arg, buf, offset, count, i, entries, types, rootIndex, typeIndex,
                   blockEntries, fileDataIndex, chunkStart, keysCount, accepted>>

----------------------------------------------------------------------------
\* the call is over: its locals are gone, the instance is ready for the next call
EndCall ==
    /\ Done
    /\ pc' = "idle"
    /\ arg' = [kind |-> "none"]
    /\ buf' = <<>>
    /\ offset' = 0
    /\ count' = 0
    /\ i' = 0
    /\ entries' = <<>>
    /\ ResetRoot
    /\ ResetEnc
    /\ result' = NoResult
    /\ UNCHANGED configVars

Finish ==
    /\ EndCall
    /\ UNCHANGED discarded

\* the same, noting what the dedup map of a parseRootFile call held for the
\* watched FileDataIDs when it was dropped
FinishNoting ==
    /\ EndCall
    /\ discarded' = IF arg.kind = "root"
                    THEN [id \in (DOMAIN rootIndex) \cap WatchedIDs |-> rootIndex[id]]
                    ELSE discarded

----------------------------------------------------------------------------
(* The configuration accessors of a CASC instance.  A string is the        *)
(* sequence of its characters.                                             *)

\* line 463: 'http://us.patch.battle.net:1119'
PATCH_SERVER_US ==
    <<"h", "t", "t", "p", ":", "/", "/", "u", "s", ".", "p", "a", "t", "c", "h", ".", "b",
      "a", "t", "t", "l", "e", ".", "n", "e", "t", ":", "1", "1", "1", "9">>

\* line 471: 'http://eu.patch.battle.net:1119'
PATCH_SERVER_EU ==
    <<"h", "t", "t", "p", ":", "/", "/", "e", "u", ".", "p", "a", "t", "c", "h", ".", "b",
      "a", "t", "t", "l", "e", ".", "n", "e", "t", ":", "1", "1", "1", "9">>

\* line 495: 'wow'
PRODUCT_WOW == <<"w", "o", "w">>

\* line 511: 'wow_beta'
PRODUCT_WOW_BETA == <<"w", "o", "w", "_", "b", "e", "t", "a">>

\* what callers pass to the setters
Empty == <<>>
Slash == <<"/">>
HostPlain == <<"a", ".", "i", "o">>
HostHttp == <<"h", "t", "t", "p", ":", "/", "/", "a", ".", "i", "o">>
HostHttpsSlash == <<"h", "t", "t", "p", "s", ":", "/", "/", "a", ".", "i", "o", "/">>
PathPlain == <<"t", "p", "r", "/", "w", "o", "w">>
PathSlashes == <<"/", "t", "p", "r", "/", "w", "o", "w", "/">>
PathTwoSlashes == <<"/", "/">>

TagInputs == {PRODUCT_WOW, PRODUCT_WOW_BETA, Empty}
HostInputs == {HostPlain, HostHttp, HostHttpsSlash}
PathInputs == {PathPlain, PathSlashes, Slash, PathTwoSlashes, Empty}
URLInputs == {PATCH_SERVER_EU, PATCH_SERVER_EU \o Slash}

\* String.prototype.startsWith / endsWith / substring
startsWith(s, p) == Len(s) >= Len(p) /\ SubSeq(s, 1, Len(p)) = p
endsWith(s, p) == Len(s) >= Len(p) /\ SubSeq(s, Len(s) - Len(p) + 1, Len(s)) = p
substring(s, from, to) == SubSeq(s, from + 1, to)

\* mutant: only a field that was never assigned counts as not set
C15_Mut_Falsy(v) == v = Undefined

\* lines 56, 67, 76, 83: `!field`, `field || ...`: undefined and '' are falsy
Falsy(v) == v = Undefined \/ v = Str(Empty)

\* lines 95-96
PatchURL(url) == IF endsWith(url, Slash) THEN substring(url, 0, Len(url) - 1) ELSE url

\* lines 108-109
CDNHost(host) ==
    LET h == IF ~startsWith(host, <<"h", "t", "t", "p">>)
             THEN <<"h", "t", "t", "p", ":", "/", "/">> \o host
             ELSE host
    IN IF endsWith(h, Slash) THEN substring(h, 0, Len(h) - 1) ELSE h

\* lines 110-111
CDNPath(path) ==
    LET q == IF startsWith(path, Slash) THEN substring(path, 1, Len(path)) ELSE path
    IN IF endsWith(q, Slash) THEN substring(q, 0, Len(q) - 1) ELSE q

\* a read of a getter; `after` is what the latest call of its setter was given
Read(getter, outcome, after) == [getter |-> getter, outcome |-> outcome, after |-> after]

\* lines 55-60
GetTargetProduct ==
    /\ got' = Read("targetProduct",
                   IF Falsy(productTag)
                   THEN Threw("No target product. Set with setTargetProduct().")
                   ELSE Returned(productTag),
                   lastSet.tag)
    /\ UNCHANGED <<parseVars, productTag, patchServer, cdnServer, cdnPath, lastSet>>

\* lines 66-68
GetPatchServer ==
    /\ got' = Read("patchServer",
                   Returned(IF Falsy(patchServer) THEN Str(PATCH_SERVER_US) ELSE patchServer),
                   lastSet.url)
    /\ UNCHANGED <<parseVars, productTag, patchServer, cdnServer, cdnPath, lastSet>>

\* lines 74-79
GetCdnServer ==
    /\ got' = Read("cdnServer",
                   IF Falsy(cdnServer)
                   THEN Threw("No CDN server specified. Set with setCDNServer().")
                   ELSE Returned(cdnServer),
                   <<lastSet.host, lastSet.path>>)
    /\ UNCHANGED <<parseVars, productTag, patchServer, cdnServer, cdnPath, lastSet>>

\* lines 81-86
GetCdnPath ==
    /\ got' = Read("cdnPath",
                   IF Falsy(cdnPath)
                   THEN Threw("No CDN path specified. Set with setCDNServer().")
                   ELSE Returned(cdnPath),
                   <<lastSet.host, lastSet.path>>)
    /\ UNCHANGED <<parseVars, productTag, patchServer, cdnServer, cdnPath, lastSet>>

\* lines 93-99
SetPatchServer(url) ==
    /\ patchServer' = Str(PatchURL(url))
    /\ lastSet' = [lastSet EXCEPT !.url = Str(url)]
    /\ UNCHANGED <<parseVars, productTag, cdnServer, cdnPath, got>>

\* lines 107-115
SetCDNServer(host, path) ==
    /\ cdnServer' = Str(CDNHost(host))
    /\ cdnPath' = Str(CDNPath(path))
    /\ lastSet' = [lastSet EXCEPT !.host = Str(host), !.path = Str(path)]
    /\ UNCHANGED <<parseVars, productTag, patchServer, got>>

\* lines 122-124
SetTargetProduct(tag) ==
    /\ productTag' = Str(tag)
    /\ lastSet' = [lastSet EXCEPT !.tag = Str(tag)]
    /\ UNCHANGED <<parseVars, patchServer, cdnServer, cdnPath, got>>

----------------------------------------------------------------------------
Next ==
    \/ \E a \in IndexInputs : ParseIndexFile(a)
    \/ IndexReadEntry
    \/ IndexReturn
    \/ \E a \in EncodingInputs : ParseEncodingFile(a)
    \/ EncChunkBegin
    \/ EncReadRecord
    \/ EncAlign
    \/ EncReturn
    \/ \E a \in RootInputs : ParseRootFile(a)
    \/ RootBlockHeader
    \/ RootReadID
    \/ RootIDsDone
    \/ RootReadPair
    \/ RootBlockDone
    \/ RootReturn
    \/ Finish

Spec == Init /\ [][Next]_vars

\* well-formed buffers for runs of several calls on one instance
SeqIndexInputs ==
    { a \in IndexInputs : a.countAt = "first" /\ a.count = Len(a.entries) }

SeqEncodingInputs ==
    { a \in EncodingInputs :
        /\ a.numEntriesA = Len(a.chunks)
        /\ a.stringBlockSize = 0
        /\ \A c \in 1..Len(a.chunks) : a.chunks[c] # ChunkFull }

SeqRootInputs ==
    { a \in RootInputs :
        /\ a.tail = 0
        /\ \A n \in 1..Len(a.blocks) :
              /\ a.blocks[n].count = Len(a.blocks[n].deltas)
              /\ a.blocks[n].contentFlag = PlainFlags.contentFlag
              /\ a.blocks[n].localeFlag = PlainFlags.localeFlag }

\* the parsers called one after the other on one instance, with the history
\* of what each parseRootFile call dropped
SeqNext ==
    \/ \E a \in SeqIndexInputs : ParseIndexFile(a)
    \/ IndexReadEntry
    \/ IndexReturn
    \/ \E a \in SeqEncodingInputs : ParseEncodingFile(a)
    \/ EncChunkBegin
    \/ EncReadRecord
    \/ EncAlign
    \/ EncReturn
    \/ \E a \in SeqRootInputs : ParseRootFile(a)
    \/ RootBlockHeader
    \/ RootReadID
    \/ RootIDsDone
    \/ RootReadPair
    \/ RootBlockDone
    \/ RootReturn
    \/ FinishNoting

SeqSpec == Init /\ [][SeqNext]_vars

\* the accessors of an instance, in any order
ConfigNext ==
    \/ GetTargetProduct
    \/ GetPatchServer
    \/ GetCdnServer
    \/ GetCdnPath
    \/ \E url \in URLInputs : SetPatchServer(url)
    \/ \E host \in HostInputs, path \in PathInputs : SetCDNServer(host, path)
    \/ \E tag \in TagInputs : SetTargetProduct(tag)

ConfigSpec == Init /\ [][ConfigNext]_vars

----------------------------------------------------------------------------
(* Properties of parseIndexFile                                            *)

IndexCall == arg.kind = "index"

\* the buffer is N well-formed entries and a trailer whose count, 12 bytes
\* before the end, is N
WellFormedIndex == IndexCall /\ arg.countAt = "first" /\ arg.count = Len(arg.entries)

\* the value the buffer holds 12 bytes before its end
DeclaredCount == IF arg.countAt = "first" THEN arg.count ELSE 0

\* v is the unsigned 32-bit big-endian value of the 4 bytes bs
IsUInt32BE(v, bs) == v >= 0 /\ PutBE(v, 4) = bs

AAEntry == [key |-> KeyAA, size |-> <<0, 0, 1, 0>>, offset |-> <<0, 0, 2, 0>>]
AAParsed == [Hash |-> "aaaaaaaaaaaaaaaaaaaaaaaaaaaaaaaa", Size |-> 256, Offset |-> 512]

\* C3: a buffer of N well-formed entries and a trailer declaring N parses to
\* exactly N entries in encoded order, entry k carrying the key bytes, the
\* unsigned big-endian size and the unsigned big-endian offset of record k.
C3_IndexRoundTrip ==
    (Done /\ WellFormedIndex) =>
        /\ pc = "returned"
        /\ Len(result.value) = Len(arg.entries)
        /\ \A k \in 1..Len(arg.entries) :
              /\ result.value[k].Hash
                    = byteArrayToHexString(Bytes(buf, EntrySize * (k - 1), KeyLen))
              /\ IsUInt32BE(result.value[k].Size, Bytes(buf, EntrySize * (k - 1) + 16, 4))
              /\ IsUInt32BE(result.value[k].Offset, Bytes(buf, EntrySize * (k - 1) + 20, 4))

\* C4: when the declared count times 24 exceeds the buffer length the call
\* throws, having read no entry, and returns nothing.
C4_CorruptIndexFails ==
    (IndexCall /\ DeclaredCount * 24 > Len(buf)) =>
        /\ pc = "threw"
        /\ result = Threw("Unable to parse archive, unexpected size.")
        /\ entries = <<>>
        /\ offset = 0
        /\ i = 0

C4_Witness ==
    /\ IndexCall
    /\ pc = "threw"
    /\ Len(arg.entries) = 2
    /\ DeclaredCount = 3
    /\ Len(buf) = 60

\* C5 as stated: N entries followed by a 12-byte trailer whose LAST 4 bytes
\* encode N parse to those N entries (the single 0xAA entry to key "aa" x 16,
\* Size 256, Offset 512).
C5_TrailerLast ==
    (Done /\ IndexCall /\ arg.countAt = "last" /\ arg.count = Len(arg.entries)) =>
        /\ pc = "returned"
        /\ Len(result.value) = Len(arg.entries)
        /\ (arg.entries = <<AAEntry>> => result.value = <<AAParsed>>)

\* C5 as amended: N entries followed by a 12-byte trailer whose FIRST 4 bytes
\* (the little-endian value 12 bytes before the end) encode N parse to N
\* entries; the 0xAA entry parses to key "aa" x 16, Size 256, Offset 512.
C5_TrailerFirst ==
    (Done /\ WellFormedIndex) =>
        /\ pc = "returned"
        /\ Len(result.value) = Len(arg.entries)
        /\ \A k \in 1..Len(arg.entries) :
              arg.entries[k] = AAEntry => result.value[k] = AAParsed

C5_Witness ==
    /\ pc = "returned"
    /\ WellFormedIndex
    /\ arg.entries = <<AAEntry>>
    /\ Len(buf) = 36
    /\ result.value = <<AAParsed>>

----------------------------------------------------------------------------
(* Properties of parseEncodingFile                                         *)

EncodingCall == arg.kind = "encoding"

\* the table declares as many chunks as it holds
WellFormedEncoding == EncodingCall /\ arg.numEntriesA = Len(arg.chunks)

\* what a record is to become: its size, its hash and its first key
ExpectedEncodingEntry(r) ==
    [ Hash |-> byteArrayToHexString(r.hash),
      Key |-> byteArrayToHexString(r.keys[1]),
      Size |-> r.size ]

ExpectedEncodingEntries(cs) ==
    Flatten([c \in 1..Len(cs) |->
                [k \in 1..Len(cs[c]) |-> ExpectedEncodingEntry(cs[c][k])]])

\* no chunk's records and terminator end exactly on a page boundary
NoFullPage == \A c \in 1..Len(arg.chunks) : Len(EncodeRecords(arg.chunks[c])) % 4096 # 0

\* where the encoder put chunk number c
ChunkPos(c) ==
    22 + arg.stringBlockSize + 32 * arg.numEntriesA
        + Len(Flatten([k \in 1..(c - 1) |-> ChunkBytes[arg.chunks[k]]]))

RECURSIVE RecordsLength(_, _)
\* the bytes of the first n records of chunk c, 22 + 16 * keyCount each
RecordsLength(c, n) ==
    IF n = 0 THEN 0 ELSE RecordsLength(c, n - 1) + 22 + 16 * c[n].keyCount

C7_ChunkAlignment ==
    (EncodingCall /\ pc \in {"enc_chunk", "enc_record", "returned"}) =>
        /\ chunkStart = 22 + arg.stringBlockSize + 32 * arg.numEntriesA
        /\ pc \in {"enc_chunk", "returned"} =>
              /\ (offset - chunkStart) % 4096 = 0
              /\ offset >= chunkStart + 4096 * i

C7_Witness ==
    /\ pc = "enc_chunk"
    /\ WellFormedEncoding
    /\ arg.stringBlockSize = 5
    /\ arg.chunks = <<(<<Rec3, Rec2>>), (<<Rec1>>)>>
    /\ i = 2
    /\ chunkStart = 91
    /\ offset = chunkStart + 8192

----------------------------------------------------------------------------
(* Properties of parseRootFile                                             *)

RootCall == arg.kind = "root"

\* a block with a locale, declaring the entries it holds
ValidBlock(bl) == bl.localeFlag # {} /\ bl.count = Len(bl.deltas)

\* the first t blocks of the buffer are valid, so block t + 1 begins where
\* the parser looks for it
Aligned(t) == t <= Len(arg.blocks) /\ \A n \in 1..t : ValidBlock(arg.blocks[n])

\* what the entry at position k of block n is to become
ExpectedRootEntry(n, k, id) ==
    [ Hash |-> byteArrayToHexString(arg.blocks[n].pairs[k].hash),
      FileDataID |-> id,
      Key |-> byteArrayToHexString(arg.blocks[n].pairs[k].key),
      Type |-> n ]

\* two valid blocks, each declaring FileDataID 100 and nothing else
TwoBlocksOf100 ==
    /\ RootCall
    /\ Len(arg.blocks) = 2
    /\ \A n \in 1..2 : ValidBlock(arg.blocks[n]) /\ arg.blocks[n].deltas = <<100>>

\* C1: for two valid blocks that each declare FileDataID 100 the returned
\* Entries holds both entries in block order when the hashes are equal, and
\* only the first when they differ.
C1_DedupOutput ==
    (pc = "returned" /\ TwoBlocksOf100) =>
        result.value.Entries =
            IF arg.blocks[1].pairs[1].hash = arg.blocks[2].pairs[1].hash
            THEN <<ExpectedRootEntry(1, 1, 100), ExpectedRootEntry(2, 1, 100)>>
            ELSE <<ExpectedRootEntry(1, 1, 100)>>

\* C2: at every point of a parse no two accepted entries share a FileDataID
\* with different hashes, and the hash recorded for a FileDataID is still the
\* hash of every accepted entry with that id (a later, different hash is
\* dropped and overwrites nothing); the same holds of the returned Entries.
C2_DedupInvariant ==
    RootCall =>
        /\ \A m, n \in 1..Len(accepted) :
              accepted[m].FileDataID = accepted[n].FileDataID
                 => accepted[m].Hash = accepted[n].Hash
        /\ \A n \in 1..Len(accepted) :
              /\ accepted[n].FileDataID \in DOMAIN rootIndex
              /\ rootIndex[accepted[n].FileDataID] = accepted[n].Hash
        /\ \A id \in DOMAIN rootIndex :
              \E n \in 1..Len(accepted) :
                 accepted[n].FileDataID = id /\ accepted[n].Hash = rootIndex[id]
        /\ pc = "returned" =>
              \A m, n \in 1..Len(result.value.Entries) :
                 result.value.Entries[m].FileDataID = result.value.Entries[n].FileDataID
                    => result.value.Entries[m].Hash = result.value.Entries[n].Hash

\* an entry of the second block was dropped: its id was taken with another hash
C2_Witness ==
    /\ pc = "root_loop"
    /\ TwoBlocksOf100
    /\ typeIndex = 2
    /\ arg.blocks[1].pairs[1].hash # arg.blocks[2].pairs[1].hash
    /\ accepted = <<ExpectedRootEntry(1, 1, 100)>>
    /\ rootIndex[100] = byteArrayToHexString(arg.blocks[1].pairs[1].hash)

\* the ids decoded so far in the current block
DecodedIDs ==
    LET n == IF pc = "root_ids" THEN i ELSE IF count > 0 THEN count ELSE 0
    IN [k \in 1..n |-> blockEntries[k].FileDataID]

InBlock == RootCall /\ pc \in {"root_ids", "root_pairs"} /\ Aligned(typeIndex - 1)
              /\ typeIndex <= Len(arg.blocks)

\* C8: within a block, the id at position k is the running index plus delta k;
\* the running index is 0 at the start of every block and the last id + 1
\* after each position; deltas 5, 0, 2 decode to 5, 6, 9.
C8_DeltaDecoding ==
    InBlock =>
        LET deltas == arg.blocks[typeIndex].deltas
            ids == DecodedIDs
        IN /\ \A k \in 1..Len(ids) :
                 k <= Len(deltas) =>
                    ids[k] = (IF k = 1 THEN 0 ELSE ids[k - 1] + 1) + deltas[k]
           /\ fileDataIndex = IF Len(ids) = 0 THEN 0 ELSE ids[Len(ids)] + 1
           /\ (deltas = <<5, 0, 2>> /\ pc = "root_pairs") => ids = <<5, 6, 9>>

\* the second block decodes 5, 6, 9 after a first block that left the running
\* index at 101
C8_Witness ==
    /\ InBlock
    /\ pc = "root_pairs"
    /\ typeIndex = 2
    /\ arg.blocks[1].deltas = <<100>>
    /\ arg.blocks[2].deltas = <<5, 0, 2>>
    /\ DecodedIDs = <<5, 6, 9>>

\* a block has been processed without an error
BlockProcessed == RootCall /\ pc = "root_loop" /\ typeIndex >= 1 /\ Aligned(typeIndex)

Increasing(ids) == \A k \in 2..Len(ids) : ids[k] > ids[k - 1]

\* C9 as stated: the ids of every block processed without an error are
\* strictly increasing, whatever the deltas.
C9_StrictlyIncreasing == BlockProcessed => Increasing(DecodedIDs)

\* C9 as amended: the ids of a block processed without an error are strictly
\* increasing when every delta after the block's first is >= 0.
C9_IncreasingWhenNonNegative ==
    (BlockProcessed
        /\ \A k \in 2..Len(arg.blocks[typeIndex].deltas) : arg.blocks[typeIndex].deltas[k] >= 0)
    => Increasing(DecodedIDs)

C9_Witness ==
    /\ BlockProcessed
    /\ arg.blocks[typeIndex].deltas = <<99, 0>>
    /\ DecodedIDs = <<99, 100>>

\* C10: blocks are numbered from 1 in declaration order: types[k] is the flag
\* pair of block k, index 0 is never assigned, and an entry read from block k
\* has Type = k.
C10_TypeNumbering ==
    (RootCall /\ pc # "threw") =>
        /\ DOMAIN types = 1..typeIndex
        /\ \A k \in 1..typeIndex :
              Aligned(k - 1) /\ k <= Len(arg.blocks) =>
                 types[k] = [ LocaleFlag |-> arg.blocks[k].localeFlag,
                              ContentFlag |-> arg.blocks[k].contentFlag ]
        /\ \A n \in 1..Len(accepted) :
              /\ accepted[n].Type \in 1..typeIndex
              /\ Aligned(accepted[n].Type - 1) /\ accepted[n].Type <= Len(arg.blocks) =>
                    \E k \in 1..Len(arg.blocks[accepted[n].Type].pairs) :
                       accepted[n].Key
                          = byteArrayToHexString(arg.blocks[accepted[n].Type].pairs[k].key)
        /\ pc = "returned" =>
              /\ result.value.Types = types
              /\ Aligned(Len(arg.blocks)) => typeIndex = Len(arg.blocks)
              /\ \A n \in 1..Len(result.value.Entries) :
                    result.value.Entries[n].Type \in DOMAIN result.value.Types

\* two blocks with different flags, an entry accepted from each
C10_Witness ==
    /\ RootCall
    /\ pc = "returned"
    /\ Aligned(2)
    /\ typeIndex = 2
    /\ result.value.Types[1] = [LocaleFlag |-> {1}, ContentFlag |-> {3}]
    /\ result.value.Types[2] = [LocaleFlag |-> 0..31, ContentFlag |-> {31}]
    /\ Len(accepted) = 2
    /\ accepted[1].Type = 1
    /\ accepted[2].Type = 2

\* where block n of the buffer begins
BlockStart(n) == Len(Flatten([k \in 1..(n - 1) |-> EncodeBlock(arg.blocks[k])]))

\* the bits 0x8 | 0x10 | 0x20000000 | 0x80000000
AcceptedContentMask == {3, 4, 29, 31}

\* a content flag that is non-zero and has no bit of the accepted mask
DisallowedContent(bl) == bl.contentFlag # {} /\ bl.contentFlag \cap AcceptedContentMask = {}

\* C11: a block whose contentFlag is non-zero and shares no bit with
\* 0x8 | 0x10 | 0x20000000 | 0x80000000 makes the parse fail at that block;
\* a block whose contentFlag is 0 or meets the mask is accepted.
C11_ContentFlagValidation ==
    RootCall =>
        \A n \in 1..Len(arg.blocks) :
            (Aligned(n - 1) /\ arg.blocks[n].localeFlag # {}) =>
                IF DisallowedContent(arg.blocks[n])
                THEN /\ typeIndex < n
                     /\ Done => pc = "threw"
                ELSE ~(pc = "threw" /\ typeIndex = n - 1)

\* C12: a block header with localeFlag = 0 makes the parse fail at that block,
\* whatever valid blocks came before it: the block is never added to Types,
\* none of its ids or key/hash pairs is read, and nothing is returned.
C12_LocaleValidation ==
    RootCall =>
        \A n \in 1..Len(arg.blocks) :
            (Aligned(n - 1) /\ arg.blocks[n].localeFlag = {}) =>
                /\ typeIndex < n
                /\ DOMAIN types \subseteq 1..(n - 1)
                /\ \A k \in 1..Len(accepted) : accepted[k].Type < n
                /\ offset <= BlockStart(n) + 12
                /\ Done =>
                      /\ pc = "threw"
                      /\ result = Threw("Root: No locale specified.")
                      /\ typeIndex = n - 1
                      /\ offset = BlockStart(n) + 12

\* the second block has no locale; the first was decoded before the failure
C12_Witness ==
    /\ RootCall
    /\ pc = "threw"
    /\ Len(arg.blocks) = 2
    /\ ValidBlock(arg.blocks[1])
    /\ arg.blocks[2].localeFlag = {}
    /\ result = Threw("Root: No locale specified.")
    /\ DOMAIN types = {1}
    /\ Len(accepted) = 1
    /\ offset = 52

\* block n declares more entries than the bytes from its header on can hold
Overruns(n) ==
    /\ arg.blocks[n].count > 0
    /\ BlockStart(n) + 12 + (4 + KeyLen + RootHashLen) * arg.blocks[n].count > Len(buf)

\* C13: a block whose declared count, or any read, would pass the end of the
\* buffer makes parseRootFile fail with the reader's underrun error, and the
\* caller gets no Entries/Types even when earlier blocks were decoded; a call
\* that returns has its cursor at the buffer length; no call of any parser
\* ends with both a failure and a value.
C13_AllOrNothing ==
    /\ Done =>
          \/ pc = "returned" /\ result.status = "returned"
          \/ pc = "threw" /\ result.status = "threw" /\ DOMAIN result = {"status", "error"}
    /\ RootCall =>
          /\ pc = "returned" =>
                /\ offset = Len(buf)
                /\ DOMAIN result.value = {"Entries", "Types"}
          /\ \A n \in 1..Len(arg.blocks) :
                (Aligned(n - 1) /\ arg.blocks[n].localeFlag # {} /\ Overruns(n)) =>
                    /\ pc # "returned"
                    /\ typeIndex <= n
                    /\ Done => result = Threw(UnderrunError)
          /\ (Aligned(Len(arg.blocks)) /\ arg.tail > 0 /\ arg.tail < 12) =>
                /\ pc # "returned"
                /\ Done => result = Threw(UnderrunError) /\ typeIndex = Len(arg.blocks)

\* the second block declares two entries and holds one; the first block had
\* been decoded when the read failed
C13_Witness ==
    /\ RootCall
    /\ pc = "threw"
    /\ Len(arg.blocks) = 2
    /\ ValidBlock(arg.blocks[1])
    /\ arg.blocks[2].count = 2
    /\ Len(arg.blocks[2].deltas) = 1
    /\ result = Threw(UnderrunError)
    /\ typeIndex = 2
    /\ Len(accepted) = 1
    /\ accepted[1].Type = 1

RECURSIVE SumTo(_, _)
SumTo(ds, k) == IF k = 0 THEN 0 ELSE SumTo(ds, k - 1) + ds[k]

\* the id at position k of a block, from the block's deltas alone
BlockID(ds, k) == SumTo(ds, k) + (k - 1)

\* every entry the call's own buffer offers, in buffer order
Candidates ==
    Flatten([n \in 1..Len(arg.blocks) |->
                [k \in 1..Len(arg.blocks[n].deltas) |->
                    ExpectedRootEntry(n, k, BlockID(arg.blocks[n].deltas, k))]])

\* the candidates whose hash is that of the first candidate with their id
KeptPositions(cs) ==
    { j \in 1..Len(cs) :
        \A m \in 1..j :
            (cs[m].FileDataID = cs[j].FileDataID
                /\ \A q \in 1..(m - 1) : cs[q].FileDataID # cs[j].FileDataID)
            => cs[m].Hash = cs[j].Hash }

Kept(cs) ==
    LET P == KeptPositions(cs)
    IN [r \in 1..Cardinality(P) |->
           cs[CHOOSE j \in P : Cardinality({m \in P : m <= j}) = r]]

\* C14: over any sequence of parse calls on one instance, what a
\* parseRootFile call accepts and drops is decided by its own buffer alone
\* (an entry is kept exactly when its hash is the one of the first entry of
\* this buffer with its FileDataID), its dedup map holds only ids of its own
\* buffer, and no map or entry list is left over between calls; what
\* parseIndexFile returns is read from its own buffer alone.
C14_CallsIndependent ==
    /\ (RootCall /\ Aligned(Len(arg.blocks)) /\ arg.tail = 0) =>
          LET kept == Kept(Candidates)
          IN /\ Len(accepted) <= Len(kept)
             /\ accepted = SubSeq(kept, 1, Len(accepted))
             /\ pc = "returned" => accepted = kept
             /\ \A id \in DOMAIN rootIndex :
                   \E j \in 1..Len(accepted) : accepted[j].FileDataID = id
    /\ (IndexCall /\ pc = "returned") =>
          result.value = [k \in 1..(IF count > 0 THEN count ELSE 0) |->
                             IndexEntryAt(buf, EntrySize * (k - 1))]
    /\ Idle => rootIndex = <<>> /\ entries = <<>> /\ types = <<>> /\ accepted = <<>>

\* an earlier call on the instance recorded hash A for FileDataID 100; this
\* call's buffer gives FileDataID 100 hash B, and the entry is accepted
C14_Witness ==
    /\ RootCall
    /\ pc = "returned"
    /\ 100 \in DOMAIN discarded
    /\ discarded[100] = byteArrayToHexString(RootHashA)
    /\ Len(arg.blocks) = 1
    /\ Len(arg.blocks[1].pairs) = 1
    /\ accepted = <<ExpectedRootEntry(1, 1, 100)>>
    /\ accepted[1].Hash = byteArrayToHexString(RootHashB)
    /\ rootIndex[100] = byteArrayToHexString(RootHashB)

----------------------------------------------------------------------------
(* Further properties of parseEncodingFile and parseIndexFile              *)

\* every chunk's records and terminator fit in one page
ChunksFitPage == \A c \in 1..Len(arg.chunks) : Len(EncodeRecords(arg.chunks[c])) <= 4096

\* C16: when every chunk's records and 2-byte terminator take at most 4096
\* bytes, chunk k (0-based) is started at chunkTableOrigin + k * 4096, also
\* when the chunk before it ends exactly on the page boundary.
C16_OnePagePerChunk ==
    (WellFormedEncoding /\ ChunksFitPage /\ pc = "enc_chunk" /\ i < count) =>
        offset = chunkStart + 4096 * i

\* C17: a parseIndexFile call that returns, returns as many entries as the
\* trailer declares; a negative declared count is reported as a corrupt
\* archive index and never returns.
C17_CountMatches ==
    IndexCall =>
        /\ pc = "returned" => Len(result.value) = count
        /\ count < 0 =>
              /\ pc # "returned"
              /\ Done => result = Threw("Unable to parse archive, unexpected size.")

----------------------------------------------------------------------------
(* Properties of the configuration accessors                               *)

\* every field is what the latest call of its own setter made of its argument
OwnFieldsOnly ==
    /\ productTag = lastSet.tag
    /\ patchServer = IF lastSet.url = Undefined THEN Undefined
                     ELSE Str(PatchURL(lastSet.url.chars))
    /\ cdnServer = IF lastSet.host = Undefined THEN Undefined
                   ELSE Str(CDNHost(lastSet.host.chars))
    /\ cdnPath = IF lastSet.path = Undefined THEN Undefined
                 ELSE Str(CDNPath(lastSet.path.chars))

ReadThrew == got.outcome.status = "threw"

\* C15 as stated: targetProduct throws until setTargetProduct is called and
\* then returns the latest tag, whatever it is; cdnServer and cdnPath throw
\* until setCDNServer is called and then succeed, whatever host and path were
\* given; setters change only their own fields.
C15_AccessorsAnyArgument ==
    /\ got.getter = "targetProduct" =>
          IF got.after = Undefined THEN ReadThrew ELSE got.outcome = Returned(got.after)
    /\ got.getter \in {"cdnServer", "cdnPath"} =>
          (ReadThrew <=> got.after = <<Undefined, Undefined>>)
    /\ OwnFieldsOnly

\* paths of which nothing is left once one leading and one trailing '/' are removed
EmptyPaths == {Str(Empty), Str(Slash), Str(PathTwoSlashes)}

\* C15 as amended: targetProduct throws until setTargetProduct is called and
\* whenever the latest tag is the empty string, and otherwise returns the
\* latest tag; cdnServer throws until setCDNServer is called and then
\* succeeds; cdnPath throws until setCDNServer is called and whenever the
\* latest path is empty once one leading and one trailing '/' are removed,
\* and otherwise succeeds; setters change only their own fields.
C15_Accessors ==
    /\ got.getter = "targetProduct" =>
          IF got.after = Undefined \/ got.after = Str(Empty)
          THEN ReadThrew
          ELSE got.outcome = Returned(got.after)
    /\ got.getter = "cdnServer" => (ReadThrew <=> got.after[1] = Undefined)
    /\ got.getter = "cdnPath" =>
          (ReadThrew <=> (got.after[2] = Undefined \/ got.after[2] \in EmptyPaths))
    /\ OwnFieldsOnly

\* the product was set twice and read back, after a CDN server was set too
C15_Witness ==
    /\ got.getter = "targetProduct"
    /\ got.after = Str(PRODUCT_WOW_BETA)
    /\ got.outcome = Returned(Str(PRODUCT_WOW_BETA))
    /\ lastSet.path = Str(PathSlashes)
    /\ cdnPath = Str(PathPlain)
    /\ cdnServer = Str(HostHttp)
    /\ lastSet.host = Str(HostPlain)

====
